---------------------------- MODULE Spec2Model ----------------------------
(***************************************************************************)
(* A model of cloudflare-worker-jwt (src/src/index.ts): the Base64URL      *)
(* codec, the segment decoder, and the sign / verify / decode operations   *)
(* of class Jwt, together with the platform functions they call (atob,     *)
(* btoa, the UTF-8 conversion, JSON.stringify / JSON.parse, Date.now and   *)
(* crypto.subtle).                                                         *)
(*                                                                         *)
(* JavaScript strings are sequences of code points (integers), byte        *)
(* arrays are sequences of 0..255.  A thrown exception is a result record  *)
(* with ok = FALSE.                                                        *)
(***************************************************************************)
EXTENDS Integers, Sequences, FiniteSets, TLC

(***************************************************************************)
(* Text helpers                                                            *)
(***************************************************************************)
\* String.prototype.replace(/x/g, y) for single characters x, y.
ReplaceAll(s, from, to) == [i \in 1..Len(s) |-> IF s[i] = from THEN to ELSE s[i]]

\* String.prototype.replace(/x/g, '').
RemoveAll(s, c) == SelectSeq(s, LAMBDA x : x # c)

\* Removes the ASCII whitespace matched by /\s/ and skipped by atob: TAB LF FF
\* CR SPACE.
StripSpace(s) == SelectSeq(s, LAMBDA x : x \notin {9, 10, 12, 13, 32})

\* String.prototype.split('.'): the pieces between the '.' characters (46).
RECURSIVE SplitFrom(_, _, _)
SplitFrom(s, i, cur) ==
    IF i > Len(s) THEN <<cur>>
    ELSE IF s[i] = 46 THEN <<cur>> \o SplitFrom(s, i + 1, <<>>)
    ELSE SplitFrom(s, i + 1, Append(cur, s[i]))

Split(s) == SplitFrom(s, 1, <<>>)

(***************************************************************************)
(* btoa / atob (platform)                                                  *)
(***************************************************************************)
B64Alphabet ==
    << 65, 66, 67, 68, 69, 70, 71, 72, 73, 74, 75, 76, 77, 78, 79, 80, 81,
       82, 83, 84, 85, 86, 87, 88, 89, 90, 97, 98, 99, 100, 101, 102, 103,
       104, 105, 106, 107, 108, 109, 110, 111, 112, 113, 114, 115, 116, 117,
       118, 119, 120, 121, 122, 48, 49, 50, 51, 52, 53, 54, 55, 56, 57, 43,
       47 >>

IsB64Char(c) ==
    \/ c >= 65 /\ c <= 90
    \/ c >= 97 /\ c <= 122
    \/ c >= 48 /\ c <= 57
    \/ c = 43
    \/ c = 47

\* The position of a character in the alphabet: A-Z, a-z, 0-9, '+', '/'.
B64Index(c) ==
    IF c >= 65 /\ c <= 90 THEN c - 65
    ELSE IF c >= 97 /\ c <= 122 THEN c - 71
    ELSE IF c >= 48 /\ c <= 57 THEN c + 4
    ELSE IF c = 43 THEN 62
    ELSE 63

B64Char(v) == B64Alphabet[v + 1]

\* btoa: standard base64 with '=' (61) padding.
RECURSIVE btoa(_)
btoa(b) ==
    IF Len(b) = 0 THEN <<>>
    ELSE IF Len(b) = 1 THEN
        << B64Char(b[1] \div 4), B64Char((b[1] % 4) * 16), 61, 61 >>
    ELSE IF Len(b) = 2 THEN
        << B64Char(b[1] \div 4),
           B64Char(((b[1] % 4) * 16) + (b[2] \div 16)),
           B64Char((b[2] % 16) * 4), 61 >>
    ELSE
        << B64Char(b[1] \div 4),
           B64Char(((b[1] % 4) * 16) + (b[2] \div 16)),
           B64Char(((b[2] % 16) * 4) + (b[3] \div 64)),
           B64Char(b[3] % 64) >> \o btoa(SubSeq(b, 4, Len(b)))

RECURSIVE AtobGroups(_)
AtobGroups(d) ==
    IF Len(d) = 0 THEN <<>>
    ELSE IF Len(d) = 2 THEN
        << (B64Index(d[1]) * 4) + (B64Index(d[2]) \div 16) >>
    ELSE IF Len(d) = 3 THEN
        << (B64Index(d[1]) * 4) + (B64Index(d[2]) \div 16),
           ((B64Index(d[2]) % 16) * 16) + (B64Index(d[3]) \div 4) >>
    ELSE << (B64Index(d[1]) * 4) + (B64Index(d[2]) \div 16),
            ((B64Index(d[2]) % 16) * 16) + (B64Index(d[3]) \div 4),
            ((B64Index(d[3]) % 4) * 64) + B64Index(d[4]) >>
         \o AtobGroups(SubSeq(d, 5, Len(d)))

\* The data atob decodes: whitespace removed, then one or two trailing '='
\* removed when the length is a multiple of 4.
AtobTrim(w) ==
    IF Len(w) > 0 /\ Len(w) % 4 = 0 /\ w[Len(w)] = 61
    THEN IF w[Len(w) - 1] = 61 THEN SubSeq(w, 1, Len(w) - 2)
         ELSE SubSeq(w, 1, Len(w) - 1)
    ELSE w

AtobDecode(d) ==
    IF Len(d) % 4 = 1 \/ \E i \in 1..Len(d) : ~IsB64Char(d[i])
    THEN [ok |-> FALSE, v |-> <<>>]
    ELSE [ok |-> TRUE, v |-> AtobGroups(d)]

\* atob (forgiving-base64 decode): throws InvalidCharacterError when the
\* data length is 1 modulo 4 or a character is outside the alphabet.
atob(s) == AtobDecode(AtobTrim(StripSpace(s)))

(***************************************************************************)
(* UTF-8 (platform): unescape(encodeURIComponent(s)) turns a string into   *)
(* its UTF-8 bytes, decodeURIComponent(escape(b)) turns bytes back and     *)
(* throws URIError on a malformed sequence.                                *)
(***************************************************************************)
Utf8OfCodePoint(c) ==
    IF c < 128 THEN << c >>
    ELSE IF c < 2048 THEN << 192 + (c \div 64), 128 + (c % 64) >>
    ELSE IF c < 65536 THEN
        << 224 + (c \div 4096), 128 + ((c \div 64) % 64), 128 + (c % 64) >>
    ELSE << 240 + (c \div 262144), 128 + ((c \div 4096) % 64),
            128 + ((c \div 64) % 64), 128 + (c % 64) >>

RECURSIVE Utf8Encode(_)
Utf8Encode(s) ==
    IF s = <<>> THEN <<>> ELSE Utf8OfCodePoint(Head(s)) \o Utf8Encode(Tail(s))

IsCont(b, i) == i <= Len(b) /\ b[i] >= 128 /\ b[i] < 192

RECURSIVE Utf8DecodeFrom(_, _, _)
Utf8DecodeFrom(b, i, acc) ==
    IF i > Len(b) THEN [ok |-> TRUE, v |-> acc]
    ELSE IF b[i] < 128 THEN Utf8DecodeFrom(b, i + 1, Append(acc, b[i]))
    ELSE IF b[i] >= 194 /\ b[i] < 224 /\ IsCont(b, i + 1) THEN
        Utf8DecodeFrom(b, i + 2, Append(acc, ((b[i] - 192) * 64) + (b[i + 1] - 128)))
    ELSE IF b[i] >= 224 /\ b[i] < 240 /\ IsCont(b, i + 1) /\ IsCont(b, i + 2) THEN
        LET c == ((b[i] - 224) * 4096) + ((b[i + 1] - 128) * 64) + (b[i + 2] - 128)
        IN  IF c < 2048 \/ (c >= 55296 /\ c < 57344)
            THEN [ok |-> FALSE, v |-> <<>>]
            ELSE Utf8DecodeFrom(b, i + 3, Append(acc, c))
    ELSE IF b[i] >= 240 /\ b[i] < 245 /\ IsCont(b, i + 1) /\ IsCont(b, i + 2)
            /\ IsCont(b, i + 3) THEN
        LET c == ((b[i] - 240) * 262144) + ((b[i + 1] - 128) * 4096)
                 + ((b[i + 2] - 128) * 64) + (b[i + 3] - 128)
        IN  IF c < 65536 \/ c > 1114111
            THEN [ok |-> FALSE, v |-> <<>>]
            ELSE Utf8DecodeFrom(b, i + 4, Append(acc, c))
    ELSE [ok |-> FALSE, v |-> <<>>]

Utf8Decode(b) == Utf8DecodeFrom(b, 1, <<>>)

(***************************************************************************)
(* JavaScript values.  Every value is a record of one shape:               *)
(*   t : "undefined" | "null" | "bool" | "num" | "str" | "obj"             *)
(*   n : the number (t = "num") or 0/1 (t = "bool")                        *)
(*   s : the string's code points (t = "str")                              *)
(*   m : the object's own properties in insertion order, a sequence of     *)
(*       <<key, value>> pairs with distinct keys (t = "obj")               *)
(***************************************************************************)
Undefined == [t |-> "undefined", n |-> 0, s |-> <<>>, m |-> <<>>]

Null == [t |-> "null", n |-> 0, s |-> <<>>, m |-> <<>>]

Bool(b) == [t |-> "bool", n |-> IF b THEN 1 ELSE 0, s |-> <<>>, m |-> <<>>]

Num(k) == [t |-> "num", n |-> k, s |-> <<>>, m |-> <<>>]

Str(x) == [t |-> "str", n |-> 0, s |-> x, m |-> <<>>]

Obj(members) == [t |-> "obj", n |-> 0, s |-> <<>>, m |-> members]

\* typeof v
TypeOf(v) ==
    CASE v.t = "undefined" -> "undefined"
      [] v.t = "null" -> "object"
      [] v.t = "bool" -> "boolean"
      [] v.t = "num" -> "number"
      [] v.t = "str" -> "string"
      [] OTHER -> "object"

\* ToBoolean(v): undefined, null, false, 0 and '' are falsy.
Truthy(v) ==
    CASE v.t = "undefined" -> FALSE
      [] v.t = "null" -> FALSE
      [] v.t = "bool" -> v.n = 1
      [] v.t = "num" -> v.n # 0
      [] v.t = "str" -> v.s # <<>>
      [] OTHER -> TRUE

HasKey(o, k) == \E i \in 1..Len(o.m) : o.m[i][1] = k

\* o[k]: undefined when o has no such property (or is not an object).
Get(o, k) ==
    IF HasKey(o, k)
    THEN o.m[CHOOSE i \in 1..Len(o.m) : o.m[i][1] = k][2]
    ELSE Undefined

\* o[k] = v on an object: an existing property keeps its position, a new one
\* is appended.
Put(o, k, v) ==
    IF HasKey(o, k)
    THEN Obj([i \in 1..Len(o.m) |-> IF o.m[i][1] = k THEN <<k, v>> ELSE o.m[i]])
    ELSE Obj(Append(o.m, <<k, v>>))

\* { ...a, ...b }: a's properties, then b's, later values winning.  Spreading
\* undefined or null contributes nothing.
RECURSIVE PutAll(_, _)
PutAll(o, members) ==
    IF members = <<>> THEN o
    ELSE PutAll(Put(o, Head(members)[1], Head(members)[2]), Tail(members))

Spread(a, b) == PutAll(IF a.t = "obj" THEN a ELSE Obj(<<>>), b.m)

Keys(o) == {o.m[i][1] : i \in 1..Len(o.m)}

(***************************************************************************)
(* JSON.stringify / JSON.parse (platform), for the fragment of JSON made   *)
(* of non-negative integers, strings, true, false, null and objects whose  *)
(* property values are scalars, written without whitespace.                *)
(***************************************************************************)
RECURSIVE Digits(_)
Digits(k) == IF k < 10 THEN << 48 + k >> ELSE Append(Digits(k \div 10), 48 + (k % 10))

\* A string literal: '"' and '\' are escaped with a backslash (92).
RECURSIVE Escaped(_)
Escaped(x) ==
    IF x = <<>> THEN <<>>
    ELSE (IF Head(x) \in {34, 92} THEN << 92, Head(x) >> ELSE << Head(x) >>)
         \o Escaped(Tail(x))

Quote(x) == << 34 >> \o Escaped(x) \o << 34 >>

StringifyScalar(v) ==
    CASE v.t = "num" -> Digits(v.n)
      [] v.t = "str" -> Quote(v.s)
      [] v.t = "bool" -> IF v.n = 1 THEN << 116, 114, 117, 101 >>
                         ELSE << 102, 97, 108, 115, 101 >>
      [] OTHER -> << 110, 117, 108, 108 >>

\* The members of an object, each preceded by a comma; a property whose value
\* is undefined is left out.
RECURSIVE StringifyMembers(_)
StringifyMembers(members) ==
    IF members = <<>> THEN <<>>
    ELSE (IF Head(members)[2].t = "undefined" THEN <<>>
          ELSE << 44 >> \o Quote(Head(members)[1]) \o << 58 >>
               \o StringifyScalar(Head(members)[2]))
         \o StringifyMembers(Tail(members))

ObjectText(body) ==
    << 123 >> \o (IF body = <<>> THEN <<>> ELSE Tail(body)) \o << 125 >>

JSON_stringify(v) ==
    IF v.t = "obj" THEN ObjectText(StringifyMembers(v.m)) ELSE StringifyScalar(v)

Fail == [ok |-> FALSE, v |-> Undefined, next |-> 0]

StartsAt(x, i, lit) ==
    /\ i + Len(lit) - 1 <= Len(x)
    /\ SubSeq(x, i, i + Len(lit) - 1) = lit

\* The characters of a string literal after its opening quote.
RECURSIVE ParseStringBody(_, _, _)
ParseStringBody(x, i, acc) ==
    IF i > Len(x) THEN Fail
    ELSE IF x[i] = 34 THEN [ok |-> TRUE, v |-> Str(acc), next |-> i + 1]
    ELSE IF x[i] = 92 THEN
        IF i + 1 <= Len(x) /\ x[i + 1] \in {34, 92}
        THEN ParseStringBody(x, i + 2, Append(acc, x[i + 1]))
        ELSE Fail
    ELSE IF x[i] < 32 THEN Fail
    ELSE ParseStringBody(x, i + 1, Append(acc, x[i]))

IsDigit(c) == c >= 48 /\ c <= 57

RECURSIVE ParseDigits(_, _, _)
ParseDigits(x, i, acc) ==
    IF i <= Len(x) /\ IsDigit(x[i])
    THEN ParseDigits(x, i + 1, (acc * 10) + (x[i] - 48))
    ELSE [ok |-> TRUE, v |-> Num(acc), next |-> i]

\* A number: 0, or a digit 1-9 followed by digits.
ParseNumber(x, i) ==
    IF x[i] = 48 THEN [ok |-> TRUE, v |-> Num(0), next |-> i + 1]
    ELSE ParseDigits(x, i, 0)

ParseScalar(x, i) ==
    IF i > Len(x) THEN Fail
    ELSE IF x[i] = 34 THEN ParseStringBody(x, i + 1, <<>>)
    ELSE IF IsDigit(x[i]) THEN ParseNumber(x, i)
    ELSE IF StartsAt(x, i, << 110, 117, 108, 108 >>)
        THEN [ok |-> TRUE, v |-> Null, next |-> i + 4]
    ELSE IF StartsAt(x, i, << 116, 114, 117, 101 >>)
        THEN [ok |-> TRUE, v |-> Bool(TRUE), next |-> i + 4]
    ELSE IF StartsAt(x, i, << 102, 97, 108, 115, 101 >>)
        THEN [ok |-> TRUE, v |-> Bool(FALSE), next |-> i + 5]
    ELSE Fail

\* The members of an object from position i, which holds the first key's
\* opening quote; o is the object built so far.
\* (ParseMembers, MemberValue and MemberEnd call one another.)
RECURSIVE ParseMembers(_, _, _)
\* After a member's value e: '}' ends the object, ',' brings the next member.
MemberEnd(x, o, k, e) ==
    IF ~e.ok \/ e.next > Len(x) THEN Fail
    ELSE IF x[e.next] = 125
        THEN [ok |-> TRUE, v |-> Put(o, k.v.s, e.v), next |-> e.next + 1]
    ELSE IF x[e.next] = 44
        THEN ParseMembers(x, e.next + 1, Put(o, k.v.s, e.v))
    ELSE Fail

\* After a member's key k: ':' and the value.
MemberValue(x, o, k) ==
    IF ~k.ok \/ k.next > Len(x) \/ x[k.next] # 58 THEN Fail
    ELSE MemberEnd(x, o, k, ParseScalar(x, k.next + 1))

ParseMembers(x, i, o) ==
    IF i > Len(x) \/ x[i] # 34 THEN Fail
    ELSE MemberValue(x, o, ParseStringBody(x, i + 1, <<>>))

ParseValue(x) ==
    IF x = <<>> THEN Fail
    ELSE IF x[1] = 123 THEN
        IF Len(x) >= 2 /\ x[2] = 125
        THEN [ok |-> TRUE, v |-> Obj(<<>>), next |-> 3]
        ELSE ParseMembers(x, 2, Obj(<<>>))
    ELSE ParseScalar(x, 1)

\* JSON.parse: throws SyntaxError unless the whole text is one value.
WholeText(x, r) ==
    IF r.ok /\ r.next = Len(x) + 1 THEN [ok |-> TRUE, v |-> r.v]
    ELSE [ok |-> FALSE, v |-> Undefined]

JSON_parse(x) == WholeText(x, ParseValue(x))

(***************************************************************************)
(* Number conversion and comparison (platform): ToNumber of a value, and   *)
(* the relational operators, which are false when an operand is NaN.       *)
(***************************************************************************)
RECURSIVE DigitsValue(_, _)
DigitsValue(x, acc) ==
    IF x = <<>> THEN acc ELSE DigitsValue(Tail(x), (acc * 10) + (Head(x) - 48))

NumberOfText(w) ==
    IF \A i \in 1..Len(w) : IsDigit(w[i])
    THEN [nan |-> FALSE, n |-> DigitsValue(w, 0)]
    ELSE [nan |-> TRUE, n |-> 0]

ToNumber(v) ==
    CASE v.t = "num" -> [nan |-> FALSE, n |-> v.n]
      [] v.t = "bool" -> [nan |-> FALSE, n |-> v.n]
      [] v.t = "null" -> [nan |-> FALSE, n |-> 0]
      [] v.t = "str" -> NumberOfText(StripSpace(v.s))
      [] OTHER -> [nan |-> TRUE, n |-> 0]

\* v > k for a number k
GreaterNumber(x, k) == ~x.nan /\ x.n > k

Greater(v, k) == GreaterNumber(ToNumber(v), k)

\* v <= k for a number k
LessEqNumber(x, k) == ~x.nan /\ x.n <= k

LessEq(v, k) == LessEqNumber(ToNumber(v), k)

(***************************************************************************)
(* class Base64URL                                                         *)
(***************************************************************************)
\* Base64URL.parse: may throw (atob).
Base64URL_parse(s) == atob(StripSpace(ReplaceAll(ReplaceAll(s, 45, 43), 95, 47)))

Base64URL_stringify(a) == ReplaceAll(ReplaceAll(RemoveAll(btoa(a), 61), 43, 45), 47, 95)

(***************************************************************************)
(* class Jwt: the algorithm table and the protected helpers                *)
(***************************************************************************)
HS256 == << 72, 83, 50, 53, 54 >>

HS384 == << 72, 83, 51, 56, 52 >>

HS512 == << 72, 83, 53, 49, 50 >>

ES256 == << 69, 83, 50, 53, 54 >>

ES384 == << 69, 83, 51, 56, 52 >>

ES512 == << 69, 83, 53, 49, 50 >>

RS256 == << 82, 83, 50, 53, 54 >>

RS384 == << 82, 83, 51, 56, 52 >>

RS512 == << 82, 83, 53, 49, 50 >>

JwtAlgorithm == {ES256, ES384, ES512, HS256, HS384, HS512, RS256, RS384, RS512}

Params(name, curve, hash) ==
    [found |-> "own", name |-> name, namedCurve |-> curve, hash |-> hash]

NoParams == [found |-> "none", name |-> "", namedCurve |-> "", hash |-> ""]

\* A property every object inherits (constructor): looking it up in the table
\* yields a value that is not undefined and is no algorithm either.
InheritedParams == [found |-> "inherited", name |-> "", namedCurve |-> "", hash |-> ""]

ObjectPrototypeKeys == { << 99, 111, 110, 115, 116, 114, 117, 99, 116, 111, 114 >> }

\* this.algorithms[id]
algorithms(id) ==
    CASE id = ES256 -> Params("ECDSA", "P-256", "SHA-256")
      [] id = ES384 -> Params("ECDSA", "P-384", "SHA-384")
      [] id = ES512 -> Params("ECDSA", "P-521", "SHA-512")
      [] id = HS256 -> Params("HMAC", "", "SHA-256")
      [] id = HS384 -> Params("HMAC", "", "SHA-384")
      [] id = HS512 -> Params("HMAC", "", "SHA-512")
      [] id = RS256 -> Params("RSASSA-PKCS1-v1_5", "", "SHA-256")
      [] id = RS384 -> Params("RSASSA-PKCS1-v1_5", "", "SHA-384")
      [] id = RS512 -> Params("RSASSA-PKCS1-v1_5", "", "SHA-512")
      [] id \in ObjectPrototypeKeys -> InheritedParams
      [] OTHER -> NoParams

utf8ToUint8Array(str) == Base64URL_parse(btoa(Utf8Encode(str))).v

\* _str2ab: the bytes of a base64 text; throws when atob does.
str2ab(str) == atob(str)

\* _decodePayload, lines 120-138.  threw = TRUE is the 'Illegal base64url
\* string!' error of a length that is 1 modulo 4; a failure of atob, of the
\* UTF-8 decoding or of JSON.parse inside the try gives null.
Padded(raw) ==
    CASE Len(raw) % 4 = 0 -> raw
      [] Len(raw) % 4 = 2 -> raw \o << 61, 61 >>
      [] Len(raw) % 4 = 3 -> raw \o << 61 >>
      [] OTHER -> raw

Caught == [threw |-> FALSE, v |-> Null]

ParsedOrNull(json) == IF json.ok THEN [threw |-> FALSE, v |-> json.v] ELSE Caught

\* A variant of TextOrNull in which a byte sequence that is not UTF-8 escapes
\* the try block.
TextOrNullUncaught(text) ==
    IF text.ok THEN ParsedOrNull(JSON_parse(text.v))
    ELSE [threw |-> TRUE, v |-> Undefined]

TextOrNull(text) == IF text.ok THEN ParsedOrNull(JSON_parse(text.v)) ELSE Caught

BinaryOrNull(bin) == IF bin.ok THEN TextOrNull(Utf8Decode(bin.v)) ELSE Caught

decodePayload(raw) ==
    IF Len(raw) % 4 = 1 THEN [threw |-> TRUE, v |-> Undefined]
    ELSE BinaryOrNull(atob(Padded(raw)))

\* segment.replace(/-/g, '+').replace(/_/g, '/')
StandardAlphabet(x) == ReplaceAll(ReplaceAll(x, 45, 43), 95, 47)

DecodeThrew(e) == [error |-> e, header |-> Undefined, payload |-> Undefined]

JwtData(h, p) ==
    IF p.threw THEN DecodeThrew("Illegal base64url string!")
    ELSE [error |-> "", header |-> h.v, payload |-> p.v]

DecodeSecond(parts, h) ==
    IF h.threw THEN DecodeThrew("Illegal base64url string!")
    ELSE IF Len(parts) < 2 THEN DecodeThrew("TypeError")
    ELSE JwtData(h, decodePayload(StandardAlphabet(parts[2])))

DecodeParts(parts) == DecodeSecond(parts, decodePayload(StandardAlphabet(parts[1])))

\* Jwt.decode, lines 237-242.  error is "" when decode returns, "TypeError"
\* when the token has no second segment (split('.')[1] is undefined), and the
\* message of _decodePayload's error when a segment's length is 1 modulo 4.
decode(token) == DecodeParts(Split(token))

(***************************************************************************)
(* Key material: a secret starting with '-----BEGIN' is PEM text, whose    *)
(* armor lines and whitespace are removed before base64 decoding.          *)
(***************************************************************************)
Dashes == << 45, 45, 45, 45, 45 >>

BeginMark == Dashes \o << 66, 69, 71, 73, 78 >>

EndMark == Dashes \o << 69, 78, 68 >>

\* Characters the regular expression's '.' does not match.
IsLineTerminator(c) == c \in {10, 13, 8232, 8233}

\* The first position at or after i where '-----' closes a match of '.*?',
\* or 0 when a line terminator or the end of the text comes first.
RECURSIVE ArmorClose(_, _)
ArmorClose(x, i) ==
    IF i > Len(x) THEN 0
    ELSE IF StartsAt(x, i, Dashes) THEN i
    ELSE IF IsLineTerminator(x[i]) THEN 0
    ELSE ArmorClose(x, i + 1)

\* x.replace(/<mark>.*?-----/g, ''): a match from position i is skipped, any
\* other character is kept.
RECURSIVE RemoveArmorFrom(_, _, _)
SkipOrKeep(x, i, mark, close) ==
    IF close # 0 THEN RemoveArmorFrom(x, close + 5, mark)
    ELSE << x[i] >> \o RemoveArmorFrom(x, i + 1, mark)

RemoveArmorFrom(x, i, mark) ==
    IF i > Len(x) THEN <<>>
    ELSE SkipOrKeep(x, i, mark,
                    IF StartsAt(x, i, mark) THEN ArmorClose(x, i + Len(mark))
                    ELSE 0)

RemoveArmor(x, mark) == RemoveArmorFrom(x, 1, mark)

PemKey(pemFormat, ab) == [ok |-> ab.ok, keyFormat |-> pemFormat, keyData |-> ab.v]

\* The key format and key bytes for a secret (lines 166-172 and 220-226);
\* pemFormat is 'pkcs8' in sign and 'spki' in verify.  ok = FALSE: _str2ab
\* threw.
KeyMaterial(secret, pemFormat) ==
    IF StartsAt(secret, 1, BeginMark)
    THEN PemKey(pemFormat,
                str2ab(StripSpace(RemoveArmor(RemoveArmor(secret, BeginMark),
                                              EndMark))))
    ELSE [ok |-> TRUE, keyFormat |-> "raw", keyData |-> utf8ToUint8Array(secret)]

(***************************************************************************)
(* crypto.subtle (platform).  The signature mathematics is replaced by a   *)
(* keyed checksum: DigestLen bytes, each depending on the hash, on every   *)
(* byte of the key and on every byte of the data.  There is one key pair   *)
(* per asymmetric family; an ECDSA signature also depends on a nonce the   *)
(* platform draws, so one input has several valid signatures.              *)
(***************************************************************************)
DigestLen(hash) ==
    CASE hash = "SHA-256" -> 2
      [] hash = "SHA-384" -> 3
      [] OTHER -> 4

RECURSIVE WeightedSum(_, _)
WeightedSum(x, w) ==
    IF x = <<>> THEN 0 ELSE (Head(x) * w) + WeightedSum(Tail(x), w + 1)

Checksum(hash, keyBytes, data, salt) ==
    [j \in 1..DigestLen(hash) |->
        ((WeightedSum(keyBytes, j + 1) * 31) + WeightedSum(data, j)
         + DigestLen(hash) + salt) % 256]

KeyPairs ==
    { [name |-> "ECDSA", namedCurve |-> "P-256",
       pkcs8 |-> << 48, 1 >>, spki |-> << 48, 2 >>],
      [name |-> "RSASSA-PKCS1-v1_5", namedCurve |-> "",
       pkcs8 |-> << 48, 3 >>, spki |-> << 48, 4 >>] }

Nonces == {0, 1}

NoKey == [ok |-> FALSE, algorithm |-> NoParams, keyData |-> <<>>, usage |-> ""]

\* crypto.subtle.importKey(format, keyData, algorithm, false, [usage]):
\* ok = FALSE is a rejected promise.
ImportedKey(keyData, algorithm, usage) ==
    [ok |-> TRUE, algorithm |-> algorithm, keyData |-> keyData, usage |-> usage]

importKey(format, keyData, algorithm, usage) ==
    IF algorithm.found # "own" THEN NoKey
    ELSE IF algorithm.name = "HMAC"
    THEN IF format = "raw" /\ keyData # <<>>
         THEN ImportedKey(keyData, algorithm, usage) ELSE NoKey
    ELSE IF \E kp \in KeyPairs :
                /\ kp.name = algorithm.name
                /\ kp.namedCurve = algorithm.namedCurve
                /\ \/ format = "pkcs8" /\ usage = "sign" /\ kp.pkcs8 = keyData
                   \/ format = "spki" /\ usage = "verify" /\ kp.spki = keyData
    THEN ImportedKey(keyData, algorithm, usage)
    ELSE NoKey

\* crypto.subtle.sign(algorithm, key, data), with the nonce the platform drew.
subtleSign(algorithm, key, data, nonce) ==
    Checksum(algorithm.hash, key.keyData, data,
             IF algorithm.name = "ECDSA" THEN nonce ELSE 0)

PrivateOf(spki) == (CHOOSE kp \in KeyPairs : kp.spki = spki).pkcs8

\* crypto.subtle.verify(algorithm, key, signature, data)
subtleVerify(algorithm, key, signature, data) ==
    IF algorithm.name = "HMAC"
    THEN signature = Checksum(algorithm.hash, key.keyData, data, 0)
    ELSE \E nonce \in Nonces :
            signature = Checksum(algorithm.hash, PrivateOf(key.keyData), data,
                                 IF algorithm.name = "ECDSA" THEN nonce ELSE 0)

(***************************************************************************)
(* Jwt.sign and Jwt.verify up to their first await                         *)
(***************************************************************************)
K_algorithm == << 97, 108, 103, 111, 114, 105, 116, 104, 109 >>

K_header == << 104, 101, 97, 100, 101, 114 >>

K_throwError == << 116, 104, 114, 111, 119, 69, 114, 114, 111, 114 >>

K_typ == << 116, 121, 112 >>

K_alg == << 97, 108, 103 >>

K_iat == << 105, 97, 116 >>

K_nbf == << 110, 98, 102 >>

K_exp == << 101, 120, 112 >>

JWT == << 74, 87, 84 >>

DefaultHeader == Obj(<< << K_typ, Str(JWT) >> >>)

\* sign's default options (lines 149 and 153).
SignDefaults == Obj(<< << K_algorithm, Str(HS256) >>, << K_header, DefaultHeader >> >>)

\* A bare algorithm is expanded to an options object (lines 150-151).
SignExpand(given) ==
    IF TypeOf(given) = "string"
    THEN Obj(<< << K_algorithm, given >>, << K_header, DefaultHeader >> >>)
    ELSE given

\* sign's effective options (lines 149-153): the default parameter value for
\* an omitted argument, the expansion of a bare algorithm, then the merge
\* over the defaults.
SignOptions(options) ==
    Spread(SignDefaults,
           SignExpand(IF options.t = "undefined" THEN SignDefaults ELSE options))

\* The default value of verify's options parameter (line 187).
VerifyParameterDefault ==
    Obj(<< << K_algorithm, Str(ES256) >>, << K_throwError, Bool(FALSE) >> >>)

\* The defaults verify merges the options over (line 191).
VerifyDefaults ==
    Obj(<< << K_algorithm, Str(HS256) >>, << K_throwError, Bool(FALSE) >> >>)

\* A bare algorithm is expanded to an options object (lines 188-189).
VerifyExpand(given) ==
    IF TypeOf(given) = "string"
    THEN Obj(<< << K_algorithm, given >>, << K_throwError, Bool(FALSE) >> >>)
    ELSE given

\* verify's effective options (lines 187-191).
VerifyOptions(options) ==
    Spread(VerifyDefaults,
           VerifyExpand(IF options.t = "undefined" THEN VerifyParameterDefault
                        ELSE options))

\* A variant of SignHeader in which the caller's header is spread last, so
\* that a caller's alg wins: { alg: options.algorithm, ...options.header }.
SignHeaderCallerWins(options) ==
    Spread(Obj(<< << K_alg, Get(options, K_algorithm) >> >>), Get(options, K_header))

\* { ...options.header, alg: options.algorithm } (line 165)
SignHeader(options) ==
    Put(Spread(Obj(<<>>), Get(options, K_header)), K_alg, Get(options, K_algorithm))

\* Base64URL.stringify(this._utf8ToUint8Array(JSON.stringify(v)))
Segment(v) == Base64URL_stringify(utf8ToUint8Array(JSON_stringify(v)))

\* A variant of StampIat that keeps an iat the caller supplied.
StampIatIfAbsent(payload, clock) ==
    IF HasKey(payload, K_iat) THEN payload ELSE Put(payload, K_iat, Num(clock))

\* The payload object after payload.iat = ... (line 163).
StampIat(payload, clock) == Put(payload, K_iat, Num(clock))

\* partialToken (lines 164-165) for the stamped payload.
PartialToken(options, payload) ==
    Segment(SignHeader(options)) \o << 46 >> \o Segment(payload)

NoSync ==
    [error |-> "", wrote |-> FALSE, payload |-> Undefined, algorithm |-> NoParams,
     partialToken |-> <<>>, key |-> NoKey]

SignThrow(e) == [NoSync EXCEPT !.error = e]

\* Lines 166-173: _str2ab may throw; otherwise importKey is called.
SignKeyed(stamped, options, algorithm, material) ==
    IF ~material.ok
    THEN [NoSync EXCEPT !.error = "InvalidCharacterError", !.wrote = TRUE,
                        !.payload = stamped]
    ELSE [error |-> "", wrote |-> TRUE, payload |-> stamped,
          algorithm |-> algorithm,
          partialToken |-> PartialToken(options, stamped),
          key |-> importKey(material.keyFormat, material.keyData, algorithm,
                            "sign")]

\* Lines 160-165.
SignWith(payload, secret, options, algorithm, clock) ==
    IF algorithm.found = "none" THEN SignThrow("algorithm not found")
    ELSE SignKeyed(StampIat(payload, clock), options, algorithm,
                   KeyMaterial(secret.s, "pkcs8"))

\* Lines 154-160.
SignChecks(payload, secret, options, clock) ==
    IF payload.t = "null" \/ TypeOf(payload) # "object"
    THEN SignThrow("payload must be an object")
    ELSE IF TypeOf(secret) # "string" THEN SignThrow("secret must be a string")
    ELSE IF TypeOf(Get(options, K_algorithm)) # "string"
    THEN SignThrow("options.algorithm must be a string")
    ELSE SignWith(payload, secret, options,
                  algorithms(Get(options, K_algorithm).s), clock)

\* sign, lines 149-173: error # "" is the exception thrown; wrote says whether
\* line 163 was reached, and payload is then the caller's object afterwards.
\* key is what the importKey promise settles to.
SignSync(payload, secret, optionsArg, clock) ==
    SignChecks(payload, secret, SignOptions(optionsArg), clock)

NoVerify ==
    [kind |-> "await", error |-> "", outcome |-> "", throwError |-> FALSE,
     algorithm |-> NoParams, tokenParts |-> <<>>, key |-> NoKey]

Throw(e) == [NoVerify EXCEPT !.kind = "throw", !.error = e]

\* A validation outcome: thrown as its tag when throwError is set, else the
\* call returns false.
Outcome(options, tag) ==
    IF Truthy(Get(options, K_throwError))
    THEN [NoVerify EXCEPT !.kind = "throw", !.error = tag, !.outcome = tag,
                          !.throwError = TRUE]
    ELSE [NoVerify EXCEPT !.kind = "return", !.outcome = tag]

\* Lines 220-227: _str2ab may throw; otherwise importKey is called.
VerifyKeyed(options, algorithm, tokenParts, material) ==
    IF ~material.ok THEN Throw("InvalidCharacterError")
    ELSE [kind |-> "await", error |-> "", outcome |-> "",
          throwError |-> Truthy(Get(options, K_throwError)),
          algorithm |-> algorithm, tokenParts |-> tokenParts,
          key |-> importKey(material.keyFormat, material.keyData, algorithm,
                            "verify")]

\* A variant of VerifyClaims that checks exp before nbf.
VerifyClaimsExpFirst(payload, secret, options, algorithm, tokenParts, clock) ==
    IF ~Truthy(payload) THEN Outcome(options, "PARSE_ERROR")
    ELSE IF Truthy(Get(payload, K_exp)) /\ LessEq(Get(payload, K_exp), clock)
    THEN Outcome(options, "EXPIRED")
    ELSE IF Truthy(Get(payload, K_nbf)) /\ Greater(Get(payload, K_nbf), clock)
    THEN Outcome(options, "NOT_YET_VALID")
    ELSE VerifyKeyed(options, algorithm, tokenParts, KeyMaterial(secret.s, "spki"))

\* Lines 205-219: the payload, nbf and exp checks, in that order.
VerifyClaims(payload, secret, options, algorithm, tokenParts, clock) ==
    IF ~Truthy(payload) THEN Outcome(options, "PARSE_ERROR")
    ELSE IF Truthy(Get(payload, K_nbf)) /\ Greater(Get(payload, K_nbf), clock)
    THEN Outcome(options, "NOT_YET_VALID")
    ELSE IF Truthy(Get(payload, K_exp)) /\ LessEq(Get(payload, K_exp), clock)
    THEN Outcome(options, "EXPIRED")
    ELSE VerifyKeyed(options, algorithm, tokenParts, KeyMaterial(secret.s, "spki"))

\* Line 204: decode may throw.
VerifyDecoded(data, secret, options, algorithm, tokenParts, clock) ==
    IF data.error # "" THEN Throw(data.error)
    ELSE VerifyClaims(data.payload, secret, options, algorithm, tokenParts, clock)

\* Lines 199-204.
VerifyParts(token, secret, options, algorithm, tokenParts, clock) ==
    IF Len(tokenParts) # 3 THEN Throw("token must consist of 3 parts")
    ELSE IF algorithm.found = "none" THEN Throw("algorithm not found")
    ELSE VerifyDecoded(decode(token.s), secret, options, algorithm, tokenParts,
                       clock)

\* Lines 192-201.
VerifyChecks(token, secret, options, clock) ==
    IF TypeOf(token) # "string" THEN Throw("token must be a string")
    ELSE IF TypeOf(secret) # "string" THEN Throw("secret must be a string")
    ELSE IF TypeOf(Get(options, K_algorithm)) # "string"
    THEN Throw("options.algorithm must be a string")
    ELSE VerifyParts(token, secret, options,
                     algorithms(Get(options, K_algorithm).s), Split(token.s),
                     clock)

\* verify, lines 187-227: kind is "throw" (error is the Error's message or the
\* thrown tag), "return" (of false) or "await" (importKey was called);
\* outcome is the validation outcome reached, if any.
VerifySync(token, secret, optionsArg, clock) ==
    VerifyChecks(token, secret, VerifyOptions(optionsArg), clock)

(***************************************************************************)
(* The state: the clock, the caller's objects, and the calls in progress   *)
(***************************************************************************)
VARIABLES
    now,    \* Math.floor(Date.now() / 1000)
    heap,   \* the caller's objects (payloads, options), by reference
    calls   \* each invocation of sign, verify or decode

vars == << now, heap, calls >>

\* The last clock value the model reaches.
MaxNow == 3

\* The number of invocations that may be in progress together.
NCalls == 2

Calls == 1..NCalls

\* An argument: a reference into the heap (ref > 0) or a primitive value.
ByRef(r) == [ref |-> r, v |-> Undefined]

ByValue(v) == [ref |-> 0, v |-> v]

Deref(a) == IF a.ref = 0 THEN a.v ELSE heap[a.ref]

\* A call: its arguments (given is the payload argument's value when sign was
\* called), its local variables, what it asked of crypto.subtle (imported:
\* importKey was called; primitive: which of sign and verify was called, on
\* the bytes signed, with or yielding signature, verify answering answer), and
\* how it settled.
IdleCall ==
    [op |-> "none", pc |-> "idle",
     payload |-> ByValue(Undefined), given |-> Undefined, token |-> Undefined,
     secret |-> Undefined, options |-> ByValue(Undefined),
     clock |-> 0, algorithm |-> NoParams, throwError |-> FALSE,
     partialToken |-> <<>>, tokenParts |-> <<>>, key |-> NoKey,
     imported |-> FALSE, primitive |-> "none", signature |-> <<>>,
     signed |-> <<>>, answer |-> FALSE,
     settled |-> "pending", error |-> "", outcome |-> "", result |-> Undefined,
     header |-> Undefined]

Rejected(c, e) == [c EXCEPT !.pc = "done", !.settled = "rejected", !.error = e]

Fulfilled(c, v) == [c EXCEPT !.pc = "done", !.settled = "fulfilled", !.result = v]

(***************************************************************************)
(* sign                                                                    *)
(***************************************************************************)
\* The caller's objects after sign's synchronous part.
SignWrite(payloadArg, sync) ==
    IF sync.wrote /\ payloadArg.ref # 0
    THEN [heap EXCEPT ![payloadArg.ref] = sync.payload]
    ELSE heap

SignStarted(c, payloadArg, secret, optionsArg, sync) ==
    [c EXCEPT !.op = "sign", !.payload = payloadArg,
              !.given = Deref(payloadArg), !.secret = secret,
              !.options = optionsArg,
              !.clock = IF sync.wrote THEN now ELSE 0,
              !.algorithm = sync.algorithm,
              !.partialToken = sync.partialToken, !.key = sync.key,
              !.imported = (sync.error = "")]

SignAwait(c, sync) ==
    IF sync.error # "" THEN Rejected(c, sync.error) ELSE [c EXCEPT !.pc = "importKey"]

SignEnter(p, payloadArg, secret, optionsArg, sync) ==
    /\ heap' = SignWrite(payloadArg, sync)
    /\ calls' = [calls EXCEPT ![p] =
                    SignAwait(SignStarted(calls[p], payloadArg, secret,
                                          optionsArg, sync), sync)]

\* sign is called: lines 149-173, to the await on importKey.
Sign(p, payloadArg, secret, optionsArg) ==
    /\ calls[p].pc = "idle"
    /\ SignEnter(p, payloadArg, secret, optionsArg,
                 SignSync(Deref(payloadArg), secret, Deref(optionsArg), now))
    /\ UNCHANGED now

\* The importKey promise settles (line 173); sign calls crypto.subtle.sign
\* (line 174).
SignImported(p) ==
    /\ calls[p].op = "sign"
    /\ calls[p].pc = "importKey"
    /\ calls' = [calls EXCEPT ![p] =
                    IF ~calls[p].key.ok THEN Rejected(calls[p], "importKey")
                    ELSE [calls[p] EXCEPT
                             !.pc = "sign", !.primitive = "sign",
                             !.signed = utf8ToUint8Array(calls[p].partialToken)]]
    /\ UNCHANGED << now, heap >>

\* The token sign returns (line 175).
AssembleToken(partialToken, signature) ==
    partialToken \o << 46 >> \o Base64URL_stringify(signature)

SignReturn(c, signature) ==
    Fulfilled([c EXCEPT !.signature = signature],
              Str(AssembleToken(c.partialToken, signature)))

\* A variant of SignSigned that builds the returned token from the caller's
\* payload object as it is when the signature arrives.
SignSignedLate(p, nonce) ==
    /\ calls[p].op = "sign"
    /\ calls[p].pc = "sign"
    /\ calls' = [calls EXCEPT ![p] =
                    SignReturn([calls[p] EXCEPT !.partialToken =
                                   PartialToken(SignOptions(Deref(calls[p].options)),
                                                Deref(calls[p].payload))],
                               subtleSign(calls[p].algorithm, calls[p].key,
                                          calls[p].signed, nonce))]
    /\ UNCHANGED << now, heap >>

\* The sign promise settles with the signature; sign returns the token
\* (line 175).
SignSigned(p, nonce) ==
    /\ calls[p].op = "sign"
    /\ calls[p].pc = "sign"
    /\ calls' = [calls EXCEPT ![p] =
                    SignReturn(calls[p],
                               subtleSign(calls[p].algorithm, calls[p].key,
                                          calls[p].signed, nonce))]
    /\ UNCHANGED << now, heap >>

(***************************************************************************)
(* verify                                                                  *)
(***************************************************************************)
VerifyStarted(c, token, secret, optionsArg, sync) ==
    [c EXCEPT !.op = "verify", !.token = token, !.secret = secret,
              !.options = optionsArg, !.clock = now,
              !.algorithm = sync.algorithm, !.throwError = sync.throwError,
              !.tokenParts = sync.tokenParts, !.key = sync.key,
              !.outcome = sync.outcome,
              !.imported = (sync.kind = "await")]

VerifyAwait(c, sync) ==
    CASE sync.kind = "throw" -> Rejected(c, sync.error)
      [] sync.kind = "return" -> Fulfilled(c, Bool(FALSE))
      [] OTHER -> [c EXCEPT !.pc = "importKey"]

\* verify is called: lines 187-227, to the await on importKey.
VerifyEnter(p, token, secret, optionsArg, sync) ==
    calls' = [calls EXCEPT ![p] =
                 VerifyAwait(VerifyStarted(calls[p], token, secret, optionsArg,
                                           sync), sync)]

Verify(p, token, secret, optionsArg) ==
    /\ calls[p].pc = "idle"
    /\ VerifyEnter(p, token, secret, optionsArg,
                   VerifySync(token, secret, Deref(optionsArg), now))
    /\ UNCHANGED << now, heap >>

\* Line 228: Base64URL.parse of the signature segment may throw; otherwise
\* crypto.subtle.verify is called on the bytes of the first two segments.
VerifyCall(c, signature) ==
    IF ~c.key.ok THEN Rejected(c, "importKey")
    ELSE IF ~signature.ok THEN Rejected(c, "InvalidCharacterError")
    ELSE [c EXCEPT !.pc = "verify", !.primitive = "verify",
                   !.signature = signature.v,
                   !.signed = utf8ToUint8Array(
                       c.tokenParts[1] \o << 46 >> \o c.tokenParts[2])]

\* The importKey promise settles (line 227); verify goes on to line 228.
VerifyImported(p) ==
    /\ calls[p].op = "verify"
    /\ calls[p].pc = "importKey"
    /\ calls' = [calls EXCEPT ![p] =
                    VerifyCall(calls[p], Base64URL_parse(calls[p].tokenParts[3]))]
    /\ UNCHANGED << now, heap >>

VerifyReturn(c, answer) == Fulfilled([c EXCEPT !.answer = answer], Bool(answer))

\* The verify promise settles; verify returns its value (line 228).
VerifyVerified(p) ==
    /\ calls[p].op = "verify"
    /\ calls[p].pc = "verify"
    /\ calls' = [calls EXCEPT ![p] =
                    VerifyReturn(calls[p],
                                 subtleVerify(calls[p].algorithm, calls[p].key,
                                              calls[p].signature,
                                              calls[p].signed))]
    /\ UNCHANGED << now, heap >>

(***************************************************************************)
(* decode                                                                  *)
(***************************************************************************)
DecodeReturn(c, data) ==
    IF data.error # "" THEN Rejected(c, data.error)
    ELSE Fulfilled([c EXCEPT !.header = data.header], data.payload)

\* decode is called (lines 237-242) with a string.
Decode(p, token) ==
    /\ calls[p].pc = "idle"
    /\ calls' = [calls EXCEPT ![p] =
                    DecodeReturn([calls[p] EXCEPT !.op = "decode",
                                                  !.token = token,
                                                  !.clock = now],
                                 decode(token.s))]
    /\ UNCHANGED << now, heap >>

\* A second passes.
Tick ==
    /\ now < MaxNow
    /\ now' = now + 1
    /\ UNCHANGED << heap, calls >>

(***************************************************************************)
(* The inputs the calls are given                                          *)
(***************************************************************************)
K_sub == << 115, 117, 98 >>

K_kid == << 107, 105, 100 >>

Text_secret == << 115, 101, 99, 114, 101, 116 >>

Text_other == << 111, 116, 104, 101, 114 >>

Text_XX999 == << 88, 88, 57, 57, 57 >>

Text_constructor == << 99, 111, 110, 115, 116, 114, 117, 99, 116, 111, 114 >>

\* PEM text around key bytes.
Pem(label, keyBytes) ==
    BeginMark \o label \o Dashes \o << 10 >> \o btoa(keyBytes) \o << 10 >>
    \o EndMark \o label \o Dashes

PrivateLabel == << 32, 80, 82, 73, 86, 65, 84, 69, 32, 75, 69, 89 >>

PublicLabel == << 32, 80, 85, 66, 76, 73, 67, 32, 75, 69, 89 >>

EcPrivatePem == Pem(PrivateLabel, << 48, 1 >>)

EcPublicPem == Pem(PublicLabel, << 48, 2 >>)

RsaPrivatePem == Pem(PrivateLabel, << 48, 3 >>)

RsaPublicPem == Pem(PublicLabel, << 48, 4 >>)

\* PEM armor around text that is not base64.
BadPem == BeginMark \o Dashes \o << 33, 33, 33, 33 >>

\* The payload objects a caller may hold.
PayloadObjects ==
    { Obj(<<>>),
      Obj(<< << K_sub, Str(<< 97 >>) >> >>),
      Obj(<< << K_sub, Str(<< 97, 98 >>) >> >>),
      Obj(<< << K_iat, Num(9) >>, << K_sub, Str(<< 233, 34 >>) >> >>),
      Obj(<< << K_nbf, Num(1) >>, << K_exp, Num(3) >> >>) }

\* The options objects a caller may hold, at heap references 3 to 9.
OptionObjects ==
    << Obj(<< << K_algorithm, Str(HS512) >>,
              << K_header, Obj(<< << K_kid, Str(<< 107 >>) >>,
                                  << K_alg, Str(<< 110, 111, 110, 101 >>) >> >>) >> >>),
       Obj(<< << K_header, Obj(<< << K_typ, Str(<< 97, 116 >>) >> >>) >> >>),
       Obj(<< << K_algorithm, Str(HS384) >> >>),
       Obj(<< << K_algorithm, Num(5) >> >>),
       Obj(<< << K_algorithm, Str(HS256) >>, << K_throwError, Bool(TRUE) >> >>),
       Obj(<< << K_throwError, Bool(TRUE) >> >>),
       Obj(<< << K_algorithm, Str(ES256) >>, << K_throwError, Bool(TRUE) >> >>) >>

PayloadRefs == {1, 2}

SignOptionRefs == {3, 4, 5, 6}

VerifyOptionRefs == {5, 6, 7, 8, 9}

HeapOf(first, second) == << first, second >> \o OptionObjects

Join(h, p, s) == h \o << 46 >> \o p \o << 46 >> \o s

TokenOf(sync, nonce) ==
    AssembleToken(sync.partialToken,
                  subtleSign(sync.algorithm, sync.key,
                             utf8ToUint8Array(sync.partialToken), nonce))

\* What sign returns for a payload object, a secret text and options, when the
\* clock reads clock and the platform draws nonce.
SignToken(payload, secret, optionsArg, clock, nonce) ==
    TokenOf(SignSync(payload, Str(secret), optionsArg, clock), nonce)

\* Payload values of hand-made tokens.
PayloadValues ==
    { Obj(<<>>),
      Obj(<< << K_nbf, Num(2) >> >>),
      Obj(<< << K_exp, Num(2) >> >>),
      Obj(<< << K_nbf, Num(3) >>, << K_exp, Num(1) >> >>),
      Obj(<< << K_nbf, Num(1) >>, << K_exp, Num(3) >> >>),
      Obj(<< << K_exp, Num(0) >> >>),
      Obj(<< << K_nbf, Num(0) >>, << K_exp, Num(9) >> >>),
      Obj(<< << K_exp, Str(<< 50 >>) >> >>),
      Num(5), Num(0), Null, Bool(FALSE), Str(<< 120 >>), Str(<<>>) }

\* Segments that are not base64 ('!!!!'), not JSON ('{') and not UTF-8 (the
\* byte 0xFF).
BadSegments ==
    { << 33, 33, 33, 33 >>, Base64URL_stringify(<< 123 >>),
      Base64URL_stringify(<< 255 >>) }

\* Payload segments of hand-made tokens: encoded JSON values, the bad
\* segments, then a segment of length 1 modulo 4 ('e'), an empty one and one
\* that carries its padding ('e30=').
PayloadSegments ==
    { Segment(v) : v \in PayloadValues }
    \cup BadSegments
    \cup { << 101 >>, <<>>, << 101, 51, 48, 61 >> }

HeaderSegment == Segment(Obj(<< << K_typ, Str(JWT) >>, << K_alg, Str(HS256) >> >>))

\* The HS256 signature segment of h.p under secret 'secret'.
GoodSignature(h, p) ==
    Base64URL_stringify(
        Checksum("SHA-256", utf8ToUint8Array(Text_secret),
                 utf8ToUint8Array(h \o << 46 >> \o p), 0))

CraftedTokens ==
    { Join(HeaderSegment, p, s) :
        p \in PayloadSegments,
        s \in { << 65, 65, 65 >>, << 33, 33, 33 >>, << 65 >> } }
    \cup { Join(HeaderSegment, p, GoodSignature(HeaderSegment, p)) :
             p \in PayloadSegments }
    \cup { Join(<< 101 >>, p, GoodSignature(<< 101 >>, p)) :
             p \in { Segment(Obj(<<>>)), Segment(Null),
                     Segment(Obj(<< << K_nbf, Num(3) >>, << K_exp, Num(1) >> >>)) } }
    \cup { Join(h, Segment(Obj(<<>>)), GoodSignature(h, Segment(Obj(<<>>)))) :
             h \in BadSegments }

\* Tokens sign returned earlier, at clock 1.
SignedTokens ==
    { SignToken(Obj(<< << K_sub, Str(<< 97 >>) >> >>), Text_secret, Undefined, 1, 0),
      SignToken(Obj(<< << K_exp, Num(2) >> >>), Text_secret, Str(HS384), 1, 0),
      SignToken(Obj(<< << K_exp, Num(0) >> >>), Text_secret, Str(HS512), 1, 0),
      SignToken(Obj(<<>>), EcPrivatePem, Str(ES256), 1, 0),
      SignToken(Obj(<<>>), EcPrivatePem, Str(ES256), 1, 1),
      SignToken(Obj(<< << K_nbf, Num(2) >> >>), RsaPrivatePem, Str(RS256), 1, 0) }

\* Strings that do not split into three parts.
MalformedTokens ==
    { <<>>, << 97, 46, 98 >>, << 97, 46, 98, 46, 99, 46, 100 >>,
      << 101, 51, 48 >> }

VerifyTokens ==
    { Str(x) : x \in CraftedTokens \cup SignedTokens \cup MalformedTokens }
    \cup { Num(7), Null }

VerifySecrets ==
    { Str(Text_secret), Str(Text_other), Str(EcPublicPem), Str(RsaPublicPem),
      Str(BadPem), Str(<<>>), Num(1) }

VerifyOptionArgs ==
    { ByValue(Undefined), ByValue(Str(HS256)), ByValue(Str(HS384)),
      ByValue(Str(ES256)), ByValue(Str(RS256)),
      ByValue(Str(Text_XX999)), ByValue(Str(Text_constructor)) }
    \cup { ByRef(r) : r \in VerifyOptionRefs }

SignPayloadArgs ==
    { ByRef(r) : r \in PayloadRefs }
    \cup { ByValue(Null), ByValue(Undefined), ByValue(Num(5)), ByValue(Str(<< 120 >>)) }

SignSecrets ==
    { Str(Text_secret), Str(Text_other), Str(EcPrivatePem), Str(RsaPrivatePem),
      Str(EcPublicPem), Str(BadPem), Str(<<>>), Num(1) }

SignOptionArgs ==
    { ByValue(Undefined), ByValue(Str(HS256)), ByValue(Str(HS384)),
      ByValue(Str(HS512)), ByValue(Str(ES256)), ByValue(Str(ES384)),
      ByValue(Str(RS256)), ByValue(Str(Text_XX999)),
      ByValue(Str(Text_constructor)), ByValue(Null) }
    \cup { ByRef(r) : r \in SignOptionRefs }

DecodeTokens ==
    { Str(x) : x \in CraftedTokens \cup SignedTokens \cup MalformedTokens }

(***************************************************************************)
(* Specifications                                                          *)
(***************************************************************************)
Init ==
    /\ now = 1
    /\ heap \in { HeapOf(first, Obj(<< << K_sub, Str(<< 97 >>) >> >>)) :
                    first \in PayloadObjects }
    /\ calls = [p \in Calls |-> IdleCall]

\* One sign call, over all its inputs.
NextSign ==
    \/ \E payloadArg \in SignPayloadArgs, secret \in SignSecrets,
          optionsArg \in SignOptionArgs : Sign(1, payloadArg, secret, optionsArg)
    \/ SignImported(1)
    \/ \E nonce \in Nonces : SignSigned(1, nonce)
    \/ Tick

SpecSign == Init /\ [][NextSign]_vars

\* The calls of verify examined: every token with the secret it was signed
\* with, under HS256 with and without throwError; every options value on the
\* hand-made tokens with a good signature; every secret and options value on a
\* few tokens.
VerifyInputs ==
    [token : VerifyTokens, secret : {Str(Text_secret)},
     options : {ByValue(Str(HS256)), ByRef(7)}]
    \cup [token : {Str(Join(HeaderSegment, p, GoodSignature(HeaderSegment, p))) :
                     p \in PayloadSegments},
          secret : {Str(Text_secret)}, options : VerifyOptionArgs]
    \cup [token : {Str(x) : x \in SignedTokens}
                  \cup {Str(<< 97, 46, 98 >>), Num(7),
                        Str(Join(HeaderSegment, Segment(Null), << 65, 65, 65 >>)),
                        Str(Join(HeaderSegment,
                                 Segment(Obj(<< << K_nbf, Num(3) >>,
                                                << K_exp, Num(1) >> >>)),
                                 << 65 >>))},
          secret : VerifySecrets, options : VerifyOptionArgs]

InitOne ==
    /\ now = 1
    /\ heap = HeapOf(Obj(<<>>), Obj(<< << K_sub, Str(<< 97 >>) >> >>))
    /\ calls = [p \in Calls |-> IdleCall]

\* One verify call, over its inputs.
NextVerify ==
    \/ \E in \in VerifyInputs : Verify(1, in.token, in.secret, in.options)
    \/ VerifyImported(1)
    \/ VerifyVerified(1)
    \/ Tick

SpecVerify == InitOne /\ [][NextVerify]_vars

\* One decode call, over all its inputs.
NextDecode ==
    \/ \E token \in DecodeTokens : Decode(1, token)
    \/ Tick

SpecDecode == InitOne /\ [][NextDecode]_vars

\* Tokens that sign calls have returned so far.
ReturnedTokens ==
    { calls[q].result : q \in { r \in Calls : /\ calls[r].op = "sign"
                                              /\ calls[r].settled = "fulfilled" } }

\* Calls are numbered in the order they are made.
MayStart(p) == calls[p].pc = "idle" /\ \A q \in Calls : q < p => calls[q].pc # "idle"

\* The key material of the concurrent calls: sign under an HMAC secret and
\* its default algorithm; verify under that secret and HS256, and under an
\* ECDSA public key with the options omitted.
VerifyKeys ==
    { [secret |-> Str(Text_secret), options |-> ByValue(Str(HS256))],
      [secret |-> Str(EcPublicPem), options |-> ByValue(Undefined)] }

\* Concurrent calls: sign on the caller's payload objects (two calls may be
\* handed the same object), verify and decode on the tokens returned so far.
Next ==
    \/ \E p \in Calls, r \in PayloadRefs :
            MayStart(p) /\ Sign(p, ByRef(r), Str(Text_secret), ByValue(Undefined))
    \/ \E p \in Calls : SignImported(p)
    \/ \E p \in Calls, nonce \in Nonces : SignSigned(p, nonce)
    \/ \E p \in Calls, token \in ReturnedTokens, k \in VerifyKeys :
            MayStart(p) /\ Verify(p, token, k.secret, k.options)
    \/ \E p \in Calls : VerifyImported(p)
    \/ \E p \in Calls : VerifyVerified(p)
    \/ \E p \in Calls, token \in ReturnedTokens : MayStart(p) /\ Decode(p, token)
    \/ Tick

Spec == InitOne /\ [][Next]_vars

(***************************************************************************)
(* Properties: vocabulary                                                  *)
(***************************************************************************)
\* The calls of an operation that have settled.
Done(op) == { p \in Calls : calls[p].op = op /\ calls[p].pc = "done" }

Returned(op) == { p \in Done(op) : calls[p].settled = "fulfilled" }

\* The segments of a verify or decode call's token.
PartsOf(c) == Split(c.token.s)

\* What the payload segment of a three-part token decodes to.
PayloadOf(c) == decodePayload(StandardAlphabet(PartsOf(c)[2])).v

\* The options in effect for a verify call.
InEffect(c) == VerifyOptions(Deref(c.options))

ThrowErrorSet(c) == Truthy(Get(InEffect(c), K_throwError))

\* A three-part token, a string secret and a known algorithm.
ArgsValid(c) ==
    /\ TypeOf(c.token) = "string"
    /\ TypeOf(c.secret) = "string"
    /\ TypeOf(Get(InEffect(c), K_algorithm)) = "string"
    /\ Get(InEffect(c), K_algorithm).s \in JwtAlgorithm
    /\ Len(PartsOf(c)) = 3

\* Neither the header nor the payload segment has a length of 1 modulo 4.
SegmentsDecode(c) ==
    /\ Len(PartsOf(c)[1]) % 4 # 1
    /\ Len(PartsOf(c)[2]) % 4 # 1

\* nbf > now and exp <= now, for the clock value the call read.
NbfViolated(c) ==
    /\ PayloadOf(c).t = "obj"
    /\ Get(PayloadOf(c), K_nbf).t = "num"
    /\ Get(PayloadOf(c), K_nbf).n > c.clock

ExpViolated(c) ==
    /\ PayloadOf(c).t = "obj"
    /\ Get(PayloadOf(c), K_exp).t = "num"
    /\ Get(PayloadOf(c), K_exp).n <= c.clock

\* The call reported the validation outcome tag: thrown when throwError is
\* set, otherwise by returning false.
Reported(c, tag) ==
    IF ThrowErrorSet(c)
    THEN c.settled = "rejected" /\ c.error = tag
    ELSE c.settled = "fulfilled" /\ c.result = Bool(FALSE)

ArgumentErrors ==
    { "token must be a string", "secret must be a string",
      "options.algorithm must be a string", "token must consist of 3 parts",
      "algorithm not found" }

\* crypto.subtle was not used by the call.
NoCrypto(c) == ~c.imported /\ c.primitive = "none"

(***************************************************************************)
(* C1                                                                      *)
(***************************************************************************)
\* C1: verify returns true only if the token has exactly 3 parts, the payload
\* segment decodes to a non-null value, nbf is absent or <= now, exp is absent
\* or > now, and crypto.subtle.verify, called on the bytes of part0.part1 and
\* the decoded bytes of part2, answered true.
C1_TrueOnlyIfAllValid ==
    \A p \in Returned("verify") :
        calls[p].result = Bool(TRUE) =>
            /\ Len(PartsOf(calls[p])) = 3
            /\ PayloadOf(calls[p]) # Null
            /\ ~NbfViolated(calls[p])
            /\ ~ExpViolated(calls[p])
            /\ calls[p].primitive = "verify"
            /\ calls[p].signed =
                 utf8ToUint8Array(PartsOf(calls[p])[1] \o << 46 >> \o PartsOf(calls[p])[2])
            /\ calls[p].signature = Base64URL_parse(PartsOf(calls[p])[3]).v
            /\ calls[p].answer

\* verify returned true for a token whose exp is 0, at a later clock value.
C1_TrueAtExpZero ==
    \E p \in Returned("verify") :
        /\ calls[p].result = Bool(TRUE)
        /\ PayloadOf(calls[p]) = Obj(<< << K_exp, Num(0) >> >>)
        /\ calls[p].clock >= 1

(***************************************************************************)
(* C2                                                                      *)
(***************************************************************************)
\* C2: for a well-formed token whose payload parses and passes the nbf check,
\* an exp that is present and <= now, exp = 0 included, gives the outcome
\* EXPIRED (thrown when throwError is set, else false is returned) and
\* crypto.subtle is not consulted.
C2_ExpiredWheneverExpPassed ==
    \A p \in Done("verify") :
        ( /\ ArgsValid(calls[p])
          /\ SegmentsDecode(calls[p])
          /\ ~NbfViolated(calls[p])
          /\ ExpViolated(calls[p]) ) =>
            /\ calls[p].outcome = "EXPIRED"
            /\ Reported(calls[p], "EXPIRED")
            /\ NoCrypto(calls[p])

\* A verify call on a token with exp = 0 went on to crypto.subtle.
C2_ExpZeroReachesCrypto ==
    \E p \in Done("verify") :
        /\ ArgsValid(calls[p])
        /\ PayloadOf(calls[p]) = Obj(<< << K_exp, Num(0) >> >>)
        /\ calls[p].imported

(***************************************************************************)
(* C3                                                                      *)
(***************************************************************************)
\* The token sign returns, with its options omitted, for {sub: 'a'} under the
\* secret 'secret' at clock 1.
DefaultSignedToken ==
    Str(SignToken(Obj(<< << K_sub, Str(<< 97 >>) >> >>), Text_secret, Undefined, 1, 0))

\* verify was given no options, or an options object with no algorithm.
NoAlgorithmGiven(c) ==
    \/ c.options = ByValue(Undefined)
    \/ c.options.ref # 0 /\ ~HasKey(heap[c.options.ref], K_algorithm)

\* C3: when verify is called with its options omitted, or with an options
\* object that has no algorithm, the key is imported and the signature checked
\* under HS256, so that a token sign returned under its default options
\* verifies under verify's default options.
C3_VerifyDefaultsToHS256 ==
    \A p \in Calls :
        (calls[p].op = "verify" /\ NoAlgorithmGiven(calls[p])) =>
            /\ calls[p].imported => calls[p].algorithm = algorithms(HS256)
            /\ ( /\ calls[p].pc = "done"
                 /\ calls[p].token = DefaultSignedToken
                 /\ calls[p].secret = Str(Text_secret) ) =>
                    calls[p].settled = "fulfilled" /\ calls[p].result = Bool(TRUE)

\* verify, its options omitted, asked importKey for an ES256 key.
C3_OmittedOptionsUseES256 ==
    \E p \in Calls :
        /\ calls[p].op = "verify"
        /\ calls[p].options = ByValue(Undefined)
        /\ calls[p].imported
        /\ calls[p].algorithm = algorithms(ES256)

(***************************************************************************)
(* C4                                                                      *)
(***************************************************************************)
\* A header or payload segment of the token has a length of 1 modulo 4; the
\* payload segment is looked at only when the header segment decodes.
OddSegment(c) ==
    \/ Len(PartsOf(c)[1]) % 4 = 1
    \/ Len(PartsOf(c)) >= 2 /\ Len(PartsOf(c)[2]) % 4 = 1

\* C4 as stated: decode never throws for a malformed segment, a segment of
\* length 1 modulo 4 included, and returns null for that field.
C4_DecodeNeverThrows ==
    \A p \in Done("decode") :
        ( /\ Len(PartsOf(calls[p])) >= 2
          /\ \/ OddSegment(calls[p])
             \/ PartsOf(calls[p])[1] \in BadSegments
             \/ PartsOf(calls[p])[2] \in BadSegments ) =>
            /\ calls[p].settled = "fulfilled"
            /\ ( \/ Len(PartsOf(calls[p])[1]) % 4 = 1
                 \/ PartsOf(calls[p])[1] \in BadSegments ) => calls[p].header = Null
            /\ ( \/ Len(PartsOf(calls[p])[2]) % 4 = 1
                 \/ PartsOf(calls[p])[2] \in BadSegments ) => calls[p].result = Null

\* C4, amended: for a token of at least two segments whose header and payload
\* segments do not have a length of 1 modulo 4, decode returns; a segment that
\* is not base64, not UTF-8 or not JSON gives null for its field, a payload
\* segment that encodes a JSON value gives that value whatever its nbf, exp
\* and signature, and crypto.subtle is not used.  A header or payload segment
\* of length 1 modulo 4 makes decode throw 'Illegal base64url string!'.
C4_DecodeNullOrIllegal ==
    \A p \in Done("decode") :
        /\ OddSegment(calls[p]) =>
              /\ calls[p].settled = "rejected"
              /\ calls[p].error = "Illegal base64url string!"
        /\ (Len(PartsOf(calls[p])) >= 2 /\ ~OddSegment(calls[p])) =>
              /\ calls[p].settled = "fulfilled"
              /\ PartsOf(calls[p])[1] \in BadSegments => calls[p].header = Null
              /\ PartsOf(calls[p])[2] \in BadSegments => calls[p].result = Null
              /\ \A v \in PayloadValues :
                    PartsOf(calls[p])[2] = Segment(v) => calls[p].result = v
              /\ NoCrypto(calls[p])

\* decode returned a null payload for a token whose payload segment is not
\* UTF-8, and returned the payload of a token whose exp has passed.
C4_NullPayloadReturned ==
    \E p \in Returned("decode") :
        /\ PartsOf(calls[p])[2] = Base64URL_stringify(<< 255 >>)
        /\ calls[p].result = Null
        /\ calls[p].header # Null

(***************************************************************************)
(* C5                                                                      *)
(***************************************************************************)
\* C5: after a sign call, whether it returned a token, threw or failed in
\* crypto.subtle, the caller's payload object is as it was when sign was
\* called, and so are the caller's options objects and their headers.
C5_SignLeavesObjects ==
    \A p \in Calls :
        (calls[p].op = "sign" /\ calls[p].pc = "done") =>
            /\ calls[p].payload.ref # 0 => heap[calls[p].payload.ref] = calls[p].given
            /\ \A i \in 1..Len(OptionObjects) : heap[2 + i] = OptionObjects[i]

\* A sign call that importKey rejected left an iat in the caller's payload
\* object, which had none.
C5_PayloadStampedOnFailure ==
    \E p \in Calls :
        /\ calls[p].op = "sign"
        /\ calls[p].settled = "rejected"
        /\ calls[p].error = "importKey"
        /\ calls[p].payload.ref # 0
        /\ ~HasKey(calls[p].given, K_iat)
        /\ HasKey(heap[calls[p].payload.ref], K_iat)

(***************************************************************************)
(* C6                                                                      *)
(***************************************************************************)
\* The validation outcome a payload calls for.
TagOf(c) ==
    IF PayloadOf(c) = Null THEN "PARSE_ERROR"
    ELSE IF NbfViolated(c) THEN "NOT_YET_VALID"
    ELSE "EXPIRED"

\* C6: for a 3-part token with a string secret and a known algorithm, a null
\* payload, nbf > now or exp <= now makes verify return false when throwError
\* is not set and throw PARSE_ERROR, NOT_YET_VALID or EXPIRED when it is; a
\* non-string token or secret, a non-string or unknown algorithm and a token
\* that is not of 3 parts throw an Error whatever throwError is.
C6_ThrowErrorGatesOutcomes ==
    \A p \in Done("verify") :
        /\ ( /\ ArgsValid(calls[p])
             /\ Len(PartsOf(calls[p])[2]) % 4 # 1
             /\ \/ PayloadOf(calls[p]) = Null
                \/ NbfViolated(calls[p])
                \/ ExpViolated(calls[p]) ) =>
              Reported(calls[p], TagOf(calls[p]))
        /\ ~ArgsValid(calls[p]) =>
              /\ calls[p].settled = "rejected"
              /\ calls[p].error \in ArgumentErrors

\* verify, with throwError set, did not throw EXPIRED for a token whose exp
\* is 0.
C6_ExpZeroNotThrown ==
    \E p \in Done("verify") :
        /\ ArgsValid(calls[p])
        /\ ThrowErrorSet(calls[p])
        /\ PayloadOf(calls[p]) = Obj(<< << K_exp, Num(0) >> >>)
        /\ calls[p].error # "EXPIRED"

(***************************************************************************)
(* C7                                                                      *)
(***************************************************************************)
\* The options a sign call was given.
GivenOptions(c) == Deref(c.options)

\* The header the caller supplied, or sign's default header.
CallerHeader(c) ==
    IF GivenOptions(c).t = "obj" /\ HasKey(GivenOptions(c), K_header)
    THEN Get(GivenOptions(c), K_header)
    ELSE DefaultHeader

\* options.algorithm after defaulting.
ChosenAlgorithm(c) ==
    IF GivenOptions(c).t = "str" THEN GivenOptions(c)
    ELSE IF GivenOptions(c).t = "obj" /\ HasKey(GivenOptions(c), K_algorithm)
    THEN Get(GivenOptions(c), K_algorithm)
    ELSE Str(HS256)

\* The header a returned token carries.
TokenHeader(c) == decode(c.result.s).header

\* C7: the header in the first segment of every token sign returns has alg
\* equal to options.algorithm after defaulting, which is the algorithm the key
\* was imported and the signature computed under, also when the caller's
\* header has an alg of its own; the caller's other header fields are there
\* unchanged.
C7_HeaderAlgIsAlgorithmUsed ==
    \A p \in Returned("sign") :
        /\ Get(TokenHeader(calls[p]), K_alg) = ChosenAlgorithm(calls[p])
        /\ calls[p].algorithm = algorithms(Get(TokenHeader(calls[p]), K_alg).s)
        /\ calls[p].key.algorithm = calls[p].algorithm
        /\ calls[p].signature \in
              { subtleSign(calls[p].algorithm, calls[p].key, calls[p].signed, n) :
                  n \in Nonces }
        /\ Keys(TokenHeader(calls[p])) = Keys(CallerHeader(calls[p])) \cup {K_alg}
        /\ \A k \in Keys(CallerHeader(calls[p])) \ {K_alg} :
              Get(TokenHeader(calls[p]), k) = Get(CallerHeader(calls[p]), k)

\* sign returned a token under HS512 for a caller's header {kid: 'k', alg:
\* 'none'}.
C7_CallerAlgOverridden ==
    \E p \in Returned("sign") :
        /\ Get(CallerHeader(calls[p]), K_alg) = Str(<< 110, 111, 110, 101 >>)
        /\ Get(TokenHeader(calls[p]), K_alg) = Str(HS512)
        /\ Get(TokenHeader(calls[p]), K_kid) = Str(<< 107 >>)

(***************************************************************************)
(* C8                                                                      *)
(***************************************************************************)
\* The payload a returned token carries.
TokenPayload(c) == decode(c.result.s).payload

\* C8: decode(sign(P, key, A)).payload has P's claims with P's values, but
\* for iat, and has as iat the clock value that sign call read, whatever the
\* length of the payload segment.
C8_RoundTrip ==
    \A p \in Returned("sign") :
        /\ Keys(TokenPayload(calls[p])) = Keys(calls[p].given) \cup {K_iat}
        /\ \A k \in Keys(calls[p].given) \ {K_iat} :
              Get(TokenPayload(calls[p]), k) = Get(calls[p].given, k)
        /\ Get(TokenPayload(calls[p]), K_iat) = Num(calls[p].clock)

\* sign returned a token for a payload that carried another iat, its payload
\* segment being of a length that is not a multiple of 4, after the clock
\* moved on.
C8_IatReplacedAndPadded ==
    \E p \in Returned("sign") :
        /\ Get(calls[p].given, K_iat) = Num(9)
        /\ Len(Split(calls[p].result.s)[2]) % 4 # 0
        /\ calls[p].clock = 2
        /\ now = 3

(***************************************************************************)
(* C9                                                                      *)
(***************************************************************************)
\* C9: verify checks the payload, then nbf, then exp, then imports the key
\* and verifies the signature: (a) a payload with nbf > now and exp <= now
\* gives NOT_YET_VALID, never EXPIRED; (b) when the outcome is PARSE_ERROR,
\* NOT_YET_VALID or EXPIRED, importKey and crypto.subtle.verify were not
\* called, whatever the signature and the key material are.
C9_ChecksInOrder ==
    \A p \in Done("verify") :
        /\ ( /\ ArgsValid(calls[p])
             /\ SegmentsDecode(calls[p])
             /\ NbfViolated(calls[p])
             /\ ExpViolated(calls[p]) ) =>
              /\ calls[p].outcome = "NOT_YET_VALID"
              /\ Reported(calls[p], "NOT_YET_VALID")
        /\ calls[p].outcome # "" =>
              /\ calls[p].outcome \in {"PARSE_ERROR", "NOT_YET_VALID", "EXPIRED"}
              /\ NoCrypto(calls[p])
        /\ calls[p].outcome = "NOT_YET_VALID" => Truthy(PayloadOf(calls[p]))
        /\ calls[p].outcome = "EXPIRED" =>
              Truthy(PayloadOf(calls[p])) /\ ~NbfViolated(calls[p])
        /\ calls[p].primitive = "verify" =>
              /\ calls[p].imported
              /\ Truthy(PayloadOf(calls[p]))
              /\ ~NbfViolated(calls[p])

\* verify reported NOT_YET_VALID for a token with nbf > now and exp <= now,
\* a signature segment that is not base64 and a secret that is no key.
C9_NotYetValidBeforeKey ==
    \E p \in Done("verify") :
        /\ calls[p].outcome = "NOT_YET_VALID"
        /\ NbfViolated(calls[p])
        /\ ExpViolated(calls[p])
        /\ PartsOf(calls[p])[3] = << 65 >>
        /\ calls[p].secret = Str(BadPem)
        /\ NoCrypto(calls[p])

(***************************************************************************)
(* C10                                                                     *)
(***************************************************************************)
\* The token a sign call returns when it runs alone on its arguments, at the
\* clock value it read and with the nonce the platform draws.
AloneToken(c, n) == Str(SignToken(c.given, c.secret.s, Deref(c.options), c.clock, n))

\* The sign calls that returned the token.
SignersOf(token) == { q \in Returned("sign") : calls[q].result = token }

\* A verify call was given the secret and the algorithm the sign call's
\* token was signed with.
KeysMatch(v, s) ==
    /\ v.secret = s.secret
    /\ v.options = ByValue(Str(HS256))
    /\ s.options = ByValue(Undefined)

\* C10: whatever the interleaving of sign and verify calls at their awaits,
\* several sign calls on one payload object included, each call's result is
\* the one it has when it runs alone: a returned token's payload segment
\* carries the iat its own call read, its signature is over its own first two
\* segments, and verify and decode answer for the token they were given.
C10_CallsDoNotInterfere ==
    /\ \A p \in Returned("sign") :
          /\ \E n \in Nonces : calls[p].result = AloneToken(calls[p], n)
          /\ Get(TokenPayload(calls[p]), K_iat) = Num(calls[p].clock)
          /\ calls[p].signed =
               utf8ToUint8Array(Split(calls[p].result.s)[1] \o << 46 >>
                                \o Split(calls[p].result.s)[2])
          /\ Split(calls[p].result.s)[3] = Base64URL_stringify(calls[p].signature)
    /\ \A p \in Done("verify") : \A q \in SignersOf(calls[p].token) :
          IF KeysMatch(calls[p], calls[q])
          THEN calls[p].settled = "fulfilled" /\ calls[p].result = Bool(TRUE)
          ELSE calls[p].result # Bool(TRUE)
    /\ \A p \in Done("decode") : \A q \in SignersOf(calls[p].token) :
          /\ calls[p].settled = "fulfilled"
          /\ calls[p].result = StampIat(calls[q].given, calls[q].clock)

\* Two sign calls on the same payload object, which read different clock
\* values, both returned, the object now holding the later call's iat.
C10_TwoSignsOneObject ==
    /\ calls[1].op = "sign" /\ calls[1].settled = "fulfilled"
    /\ calls[2].op = "sign" /\ calls[2].settled = "fulfilled"
    /\ calls[1].payload = calls[2].payload
    /\ calls[1].clock = 1
    /\ calls[2].clock = 2
    /\ heap[calls[1].payload.ref] = StampIat(calls[1].given, 2)
    /\ Get(TokenPayload(calls[1]), K_iat) = Num(1)

============================================================================
